---- MODULE Spec2Model ----
(***************************************************************************)
(* Verification model of the voice-call system:                            *)
(*   - VoiceCallWorkflow (workflows/call_workflow.py): the durable call    *)
(*     state machine, its signal handlers and its cleanup sequence;        *)
(*   - AudioBridgeManager (services/audio_bridge.py): the active and       *)
(*     pre-warm registries, the claim and the expiry timers;               *)
(*   - AudioBridgeSession.send_audio_from_twilio and _send_realtime: the   *)
(*     inbound frame path with its backpressure.                           *)
(* Each component has its own specification over its own variables; the    *)
(* variables of the other components stay at their initial values.         *)
(***************************************************************************)
EXTENDS Integers, Sequences, FiniteSets, TLC

VARIABLES
    wf,         \* the fields of the VoiceCallWorkflow instance and the position of run()
    log,        \* the activities run() has invoked, in order
    lastSig,    \* the signal delivered by the last step, if that step was a delivery
    script,     \* the signals a scripted end-to-end scenario has still to deliver
    sessions,               \* AudioBridgeManager.sessions: session id -> session object
    prewarmed_sessions,     \* AudioBridgeManager.prewarmed_sessions: workflow id -> session object
    prewarm_cleanup_tasks,  \* AudioBridgeManager._prewarm_cleanup_tasks: workflow id -> expiry task
    objs,       \* the AudioBridgeSession objects constructed so far
    timers,     \* the expiry tasks (_cleanup_prewarmed_session), one per registered pre-warm
    pending,    \* manager coroutines suspended in `await session.start()`
    ret,        \* the session object the last get_or_create_session returned
    cleaned,    \* what the last cleanup_prewarm call returned, and for which workflow id
    closing,    \* position of the close_all_sessions call and the keys it has still to visit
    active,             \* AudioBridgeSession.active of the session the media stream feeds
    total_frames_sent,  \* AudioBridgeSession.total_frames_sent
    dropped_frames,     \* AudioBridgeSession.dropped_frames
    out_queue,          \* AudioBridgeSession.out_queue: converted frames waiting for the sender
    executor,           \* conversions submitted to _audio_executor, in submission order
    sender,             \* position of the _send_realtime task
    sending,            \* the frame _send_realtime took from out_queue and is sending
    ai_received,        \* the frames the AI endpoint has received, in order
    session_task,       \* state of AudioBridgeSession.session_task (_run_session)
    pool,               \* state of AudioBridgeSession._audio_executor
    stops,              \* position of each stop() call on the session
    receiver,           \* position of the _receive_audio task
    audio_in_queue,     \* AudioBridgeSession.audio_in_queue: frames waiting for telephony
    interruption_count, \* AudioBridgeSession.interruption_count
    total_frames_received,  \* AudioBridgeSession.total_frames_received
    to_twilio,          \* the frames receive_audio_for_twilio has handed out, in order
    ai_events,          \* number of events the AI endpoint has sent
    barge_ins,          \* number of events flagged interrupted the receiver has processed
    stale_mark,         \* the last frame queued before the latest processed interruption
    session_id,         \* AudioBridgeSession.session_id
    turn_count,         \* turn_count of _receive_audio: the turns it has started to receive
    transcript_buffer,  \* AudioBridgeSession.transcript_buffer: deque(maxlen=50)
    appended,           \* number of segments _receive_audio has appended
    returned,           \* the segments get_transcript_buffer calls have returned, in order
    evicted,            \* the segments the deque discarded when it was full
    activity_args,      \* the arguments run() passed to each activity it invoked, in order
                        \* (recorded in the specifications that read them, else empty)
    handler,            \* position of media_stream_handler and its streaming_ended_sent flag
    drained,            \* number of segments the handler and its sync task drained and signalled
    metrics_cycles,     \* number of sleeps of _sync_metrics_to_workflow that have returned
    metrics_signals,    \* number of update_metrics signals the workflow has received
    codec,              \* the last call of a codec helper: its input and its outcome
    send_ignored,       \* whether a send_audio_from_twilio call has returned at its test of
                        \* active (recorded in the specification that reads it)
    api,                \* position of the initiate_call request of each workflow id
    watchdog,           \* position of the _ensure_first_audio_frame task
    forced_prompts,     \* number of greetings _ensure_first_audio_frame has sent
    first_audio_frame_at    \* AudioBridgeSession.first_audio_frame_at: None or set
                        \* (recorded in the specification that reads it)

wfvars == <<wf, log, lastSig, script, activity_args>>

mgrvars == <<sessions, prewarmed_sessions, prewarm_cleanup_tasks, objs, timers, pending, ret,
            cleaned, closing>>

framevars == <<total_frames_sent, dropped_frames, out_queue, executor, sending,
               ai_received>>

lifevars == <<active, sender, session_task, pool, stops>>

recvvars == <<receiver, audio_in_queue, interruption_count, total_frames_received,
              to_twilio, ai_events, barge_ins, stale_mark>>

turnvars == <<session_id, turn_count>>

tsvars == <<transcript_buffer, appended, returned, evicted>>

sessvars == <<framevars, lifevars, recvvars, turnvars, tsvars>>

adaptervars == <<handler, drained, metrics_cycles, metrics_signals>>

\* initiate_call and the greeting watchdog of the session
sidevars == <<api, watchdog, forced_prompts>>

othervars == <<adaptervars, codec, sidevars>>

restvars == <<othervars, send_ignored, first_audio_frame_at>>

\* what media_stream_handler and its sync tasks leave alone
beyondvars == <<mgrvars, sessvars, codec, send_ignored, sidevars, first_audio_frame_at>>

None == "None"

(***************************************************************************)
(* Bounds of the model.                                                    *)
(***************************************************************************)
MaxSegments == 2        \* transcript segments a call instance receives
MaxObjects == 3         \* AudioBridgeSession objects the manager constructs
MaxClosingObjects == 2  \* of them, those constructed in a run with close_all_sessions

(***************************************************************************)
(*                       VoiceCallWorkflow                                 *)
(***************************************************************************)
CallStatus ==
    {"INITIATED", "RINGING", "IN_PROGRESS", "COMPLETED", "FAILED",
     "NO_ANSWER", "BUSY", "CANCELED"}

\* the strings the telephony webhook delivers, and one the mapping does not know
TwilioStatus ==
    {"initiated", "ringing", "answered", "in-progress", "completed", "busy",
     "no-answer", "failed", "canceled", "not-a-status"}

TerminalTwilioStatus == {"completed", "busy", "no-answer", "failed", "canceled"}

\* mutant: the mapping has no entry for "answered"
status_mapping_NoAnswered(s) ==
    CASE s = "initiated"   -> "INITIATED"
      [] s = "ringing"     -> "RINGING"
      [] s = "in-progress" -> "IN_PROGRESS"
      [] s = "completed"   -> "COMPLETED"
      [] s = "busy"        -> "BUSY"
      [] s = "no-answer"   -> "NO_ANSWER"
      [] s = "failed"      -> "FAILED"
      [] s = "canceled"    -> "CANCELED"
      [] OTHER             -> None

\* status_mapping.get(status): None for an unknown string
status_mapping(s) ==
    CASE s = "initiated"   -> "INITIATED"
      [] s = "ringing"     -> "RINGING"
      [] s = "answered"    -> "IN_PROGRESS"
      [] s = "in-progress" -> "IN_PROGRESS"
      [] s = "completed"   -> "COMPLETED"
      [] s = "busy"        -> "BUSY"
      [] s = "no-answer"   -> "NO_ANSWER"
      [] s = "failed"      -> "FAILED"
      [] s = "canceled"    -> "CANCELED"
      [] OTHER             -> None

max_attempts == 3

SetupActivities ==
    {"create_call_record", "create_session_record", "initiate_twilio_call"}

CleanupActivities ==
    {"terminate_twilio_call", "save_transcript_batch", "update_call_record",
     "cleanup_session_record"}

Activities == SetupActivities \cup CleanupActivities \cup {"get_twilio_call_status"}

\* run() has returned its result, or has re-raised its error
Exited == {"returned", "raised"}

\* VoiceCallWorkflow.__init__, then run() up to its first await
WorkflowInit ==
    [pc |-> "create_call_record",
     ctx |-> "try",                 \* "try": the try body; "except": the handler
     status |-> "INITIATED",
     call_id |-> None,
     call_sid |-> None,
     stream_sid |-> None,
     streaming_active |-> FALSE,
     call_ended |-> FALSE,
     max_duration_reached |-> FALSE,
     segs |-> 0,                    \* len(self.transcript_segments)
     attempt |-> 0,
     call_actually_connected |-> FALSE,
     failed_at |-> None]            \* the await whose exception `except Exception` caught

\* the part of the instance the signal handlers own (the call state)
CallState(w) ==
    <<w.status, w.call_ended, w.streaming_active, w.stream_sid, w.segs, w.call_sid>>

(* ---- signal handlers: each runs to completion, one at a time ---- *)

\* mutant: a stream that starts re-opens a call that had ended
streaming_started_Reopens(w, sid) ==
    [w EXCEPT !.stream_sid = sid, !.streaming_active = TRUE, !.call_ended = FALSE]

streaming_started(w, sid) ==
    [w EXCEPT !.stream_sid = sid, !.streaming_active = TRUE]

streaming_ended(w) ==
    IF w.call_ended
    THEN w
    ELSE [w EXCEPT !.streaming_active = FALSE, !.call_ended = TRUE]

transcripts_available(w, n) ==
    [w EXCEPT !.segs = w.segs + n]

\* mutant: a terminal status for a call that has already ended is treated as an
\* error instead of being ignored
call_status_changed_RepeatFails(w, s) ==
    LET mapped == status_mapping(s)
        w1 == IF mapped # None THEN [w EXCEPT !.status = mapped] ELSE w
    IN  IF s \in TerminalTwilioStatus
        THEN IF ~w1.call_ended
             THEN [w1 EXCEPT !.call_ended = TRUE]
             ELSE [w1 EXCEPT !.status = "FAILED"]
        ELSE w1

call_status_changed(w, s) ==
    LET mapped == status_mapping(s)
        w1 == IF mapped # None THEN [w EXCEPT !.status = mapped] ELSE w
    IN  IF s \in TerminalTwilioStatus /\ ~w1.call_ended
        THEN [w1 EXCEPT !.call_ended = TRUE]
        ELSE w1

set_call_sid(w, sid) ==
    [w EXCEPT !.call_sid = sid]

(* ---- run(): the positions are its awaits ---- *)

\* execute_activity(a, ...): the arguments are evaluated and the activity is
\* scheduled; run() is suspended until the activity completes or fails
Await(w, l, a) ==
    [w |-> [w EXCEPT !.pc = a],
     l |-> Append(l, a)]

Goto(w, l, p) == [w |-> [w EXCEPT !.pc = p], l |-> l]

\* _cleanup_call after cleanup_session_record: run() returns _build_result()
\* from the try body, or re-raises from the handler
AfterCleanupSession(w, l) ==
    Goto(w, l, IF w.ctx = "try" THEN "returned" ELSE "raised")

AfterUpdate(w, l) == Await(w, l, "cleanup_session_record")

AfterSave(w, l) == Await(w, l, "update_call_record")

\* mutant: the cleanup saves a batch whether or not a segment is buffered
AfterTerminate_SavesAlways(w, l) == Await(w, l, "save_transcript_batch")

AfterTerminate(w, l) ==
    IF w.segs > 0 THEN Await(w, l, "save_transcript_batch") ELSE AfterSave(w, l)

\* mutant: the cleanup does not hang up the call
cleanup_call_SkipsTerminate(w, l) == AfterTerminate(w, l)

\* _cleanup_call up to its first await
cleanup_call(w, l) ==
    IF w.call_sid # None THEN Await(w, l, "terminate_twilio_call")
    ELSE AfterTerminate(w, l)

\* an exception at the current await: inside the try body it reaches
\* `except Exception` (status FAILED, cleanup, raise); inside the handler's own
\* cleanup it leaves run()
Raise(w, l) ==
    IF w.ctx = "try"
    THEN cleanup_call([w EXCEPT !.status = "FAILED", !.ctx = "except",
                                !.failed_at = w.pc], l)
    ELSE Goto(w, l, "raised")

\* "Final determination" when the connection loop is left unconnected
NotConnected(w, l) ==
    cleanup_call(
        IF w.status \in {"INITIATED", "RINGING"}
        THEN [w EXCEPT !.status = "NO_ANSWER"] ELSE w, l)

ConnectCond(w) ==
    w.status = "IN_PROGRESS" \/ w.streaming_active \/ w.call_ended

EndCond(w) == w.call_ended \/ w.max_duration_reached

\* the start of loop round w.attempt, or the code after the loop
NextRound(w, l) ==
    IF w.attempt + 1 < max_attempts
    THEN Goto([w EXCEPT !.attempt = w.attempt + 1], l, "wait_connect")
    ELSE NotConnected(w, l)

\* the loop body after wait_condition has returned
AfterWaitConnect(w, l) ==
    IF w.call_ended THEN NotConnected(w, l)
    ELSE IF w.status = "IN_PROGRESS" \/ w.streaming_active
    THEN Goto([w EXCEPT !.call_actually_connected = TRUE], l, "wait_end")
    ELSE IF w.call_sid # None /\ w.attempt < max_attempts - 1
    THEN Await(w, l, "get_twilio_call_status")
    ELSE NextRound(w, l)

\* the code after the second wait_condition has returned
AfterWaitEnd(w, l) ==
    cleanup_call(
        IF ~w.call_ended
        THEN [w EXCEPT !.max_duration_reached = TRUE, !.call_ended = TRUE]
        ELSE w, l)

\* an activity of the try body or of _cleanup_call has completed
AfterActivity(w, l) ==
    CASE w.pc = "create_call_record" ->
            Await([w EXCEPT !.call_id = "call-id"], l, "create_session_record")
      [] w.pc = "create_session_record" -> Await(w, l, "initiate_twilio_call")
      [] w.pc = "initiate_twilio_call" ->
            Goto([w EXCEPT !.call_sid = "CA-initiated"], l, "wait_connect")
      [] w.pc = "terminate_twilio_call" -> AfterTerminate(w, l)
      [] w.pc = "save_transcript_batch" -> AfterSave(w, l)
      [] w.pc = "update_call_record" -> AfterUpdate(w, l)
      [] w.pc = "cleanup_session_record" -> AfterCleanupSession(w, l)

NoSignal == [name |-> "none", arg |-> None, rep |-> 0]

\* the arguments execute_activity evaluates for the activity w.pc from the
\* fields of the instance: the status written to the call record and the
\* final status of the session record, the call sid, the number of segments
\* of the batch, the grace TTL
ActivityArgs(w) ==
    LET none == [activity |-> w.pc, status |-> None, call_sid |-> None,
                 segs |-> None, ttl |-> None]
    IN  CASE w.pc = "terminate_twilio_call" -> [none EXCEPT !.call_sid = w.call_sid]
          [] w.pc = "save_transcript_batch" -> [none EXCEPT !.segs = w.segs]
          [] w.pc = "update_call_record" ->
                [none EXCEPT !.status = w.status, !.call_sid = w.call_sid]
          [] w.pc = "cleanup_session_record" ->
                [none EXCEPT !.status = IF w.status = "COMPLETED" THEN "completed"
                                        ELSE "failed",
                             !.ttl = 300]
          [] OTHER -> none

Step(r) == /\ wf' = r.w
           /\ log' = r.l
           /\ activity_args' = IF activity_args # <<>> /\ Len(r.l) > Len(log)
                               THEN Append(activity_args, ActivityArgs(r.w))
                               ELSE activity_args
           /\ lastSig' = NoSignal
           /\ UNCHANGED <<script, mgrvars, sessvars, restvars>>

ActivityCompletes ==
    /\ wf.pc \in SetupActivities \cup CleanupActivities
    /\ Step(AfterActivity(wf, log))

ActivityFails ==
    /\ wf.pc \in SetupActivities \cup CleanupActivities
    /\ Step(Raise(wf, log))

\* workflow.wait_condition(fn, timeout=...) returns once fn() holds
WaitConnectReturns ==
    /\ wf.pc = "wait_connect"
    /\ ConnectCond(wf)
    /\ Step(AfterWaitConnect(wf, log))

\* ... and raises asyncio.TimeoutError when the timeout elapses first: the
\* statement after the await is not reached, the error goes to `except Exception`
WaitConnectTimesOut ==
    /\ wf.pc = "wait_connect"
    /\ ~ConnectCond(wf)
    /\ Step(Raise(wf, log))

WaitEndReturns ==
    /\ wf.pc = "wait_end"
    /\ EndCond(wf)
    /\ Step(AfterWaitEnd(wf, log))

WaitEndTimesOut ==
    /\ wf.pc = "wait_end"
    /\ ~EndCond(wf)
    /\ Step(Raise(wf, log))

\* a signal is applied while run() is suspended at an await
Apply(name, arg, w) ==
    /\ wf.pc \notin Exited
    /\ wf' = w
    /\ lastSig' = [name |-> name, arg |-> arg,
                   rep |-> IF lastSig.name = name /\ lastSig.arg = arg THEN 2 ELSE 1]
    /\ UNCHANGED <<log, activity_args, mgrvars, sessvars, restvars>>

\* a signal sent by the webhooks, the media stream or the API at any time
Deliver(name, arg, w) == Apply(name, arg, w) /\ UNCHANGED script

SignalStreamingStarted ==
    \E sid \in {"MZ1"} : Deliver("streaming_started", sid, streaming_started(wf, sid))

SignalStreamingEnded ==
    Deliver("streaming_ended", None, streaming_ended(wf))

SignalTranscriptsAvailable ==
    \E n \in 1..MaxSegments :
        /\ wf.segs + n <= MaxSegments
        /\ Deliver("transcripts_available", None, transcripts_available(wf, n))

SignalCallStatusChanged ==
    \E s \in TwilioStatus : Deliver("call_status_changed", s, call_status_changed(wf, s))

SignalSetCallSid ==
    \E sid \in {"CA-signalled"} : Deliver("set_call_sid", sid, set_call_sid(wf, sid))

(* ---- the end-to-end scenarios of tests/test_call_workflow.py ---- *)

NoScript == [name |-> "none", rest |-> <<>>]

\* test_successful_call_workflow: the signals the test sends, in its order
ScenarioA ==
    [name |-> "A",
     rest |-> << [name |-> "call_status_changed", arg |-> "in-progress"],
                 [name |-> "streaming_started", arg |-> "MZ1"],
                 [name |-> "transcripts_available", arg |-> 2],
                 [name |-> "streaming_ended", arg |-> None] >>]

\* test_call_no_answer_workflow
ScenarioB ==
    [name |-> "B",
     rest |-> << [name |-> "call_status_changed", arg |-> "no-answer"] >>]

\* the handler the signal s runs
Handler(w, s) ==
    CASE s.name = "call_status_changed" -> call_status_changed(w, s.arg)
      [] s.name = "streaming_started" -> streaming_started(w, s.arg)
      [] s.name = "transcripts_available" -> transcripts_available(w, s.arg)
      [] s.name = "streaming_ended" -> streaming_ended(w)
      [] s.name = "set_call_sid" -> set_call_sid(w, s.arg)

\* the next signal of the scenario is delivered
ScriptedSignal ==
    /\ script.rest # <<>>
    /\ LET s == Head(script.rest) IN Apply(s.name, s.arg, Handler(wf, s))
    /\ script' = [script EXCEPT !.rest = Tail(script.rest)]

ScenarioNext ==
    \/ ActivityCompletes
    \/ ActivityFails
    \/ WaitConnectReturns
    \/ WaitConnectTimesOut
    \/ WaitEndReturns
    \/ WaitEndTimesOut
    \/ ScriptedSignal

WorkflowNext ==
    \/ ActivityCompletes
    \/ ActivityFails
    \/ WaitConnectReturns
    \/ WaitConnectTimesOut
    \/ WaitEndReturns
    \/ WaitEndTimesOut
    \/ SignalStreamingStarted
    \/ SignalStreamingEnded
    \/ SignalTranscriptsAvailable
    \/ SignalCallStatusChanged
    \/ SignalSetCallSid


(***************************************************************************)
(*                       AudioBridgeManager                                *)
(* asyncio runs one coroutine at a time; a coroutine gives up control only *)
(* at an await.  Each action below is the code between two awaits.         *)
(***************************************************************************)
WorkflowIds == {"w1", "w2"}
SessionIds == {"s1", "s2"}
\* the session objects, in the order in which they are constructed
ObjectNames == <<"o1", "o2", "o3", "o4", "o5">>
ObjectIds == {ObjectNames[i] : i \in 1..MaxObjects}

NoObject ==
    [made |-> FALSE, session_id |-> None, workflow_id |-> None, origin |-> None,
     active |-> FALSE, claimed |-> 0, expired |-> 0, cleaned |-> 0, closed |-> 0]

\* AudioBridgeSession(session_id, call_id) followed by start(): active is True
NewObject(sid, w, origin) ==
    [made |-> TRUE, session_id |-> sid, workflow_id |-> w, origin |-> origin,
     active |-> TRUE, claimed |-> 0, expired |-> 0, cleaned |-> 0, closed |-> 0]

\* session.stop() up to its first await: active = False; `by` names the caller
stop(ob, o, by) ==
    [ob EXCEPT ![o].active = FALSE,
               ![o].expired = @ + (IF by = "expiry" THEN 1 ELSE 0),
               ![o].cleaned = @ + (IF by = "cleanup_prewarm" THEN 1 ELSE 0),
               ![o].closed = @ + (IF by = "close_session" THEN 1 ELSE 0)]

prewarm_id(w) == IF w = "w1" THEN "prewarm-w1" ELSE "prewarm-w2"

FreeObjects == {o \in ObjectIds : ~objs[o].made}

\* the number of session objects constructed so far
Made == Cardinality(ObjectIds \ FreeObjects)

\* the next object constructed
Fresh ==
    LET first == CHOOSE i \in 1..MaxObjects :
                    (ObjectNames[i] \in FreeObjects) /\
                    (\A j \in 1..(i - 1) : ObjectNames[j] \notin FreeObjects)
    IN  ObjectNames[first]

\* dict.pop(key, None): the registry afterwards
Pop(reg, k) == [reg EXCEPT ![k] = None]

\* task.cancel() on the task tracked under a key, if there is one that is not
\* done: a sleeping task gets CancelledError at its sleep; a task that has
\* already popped its session is past the point where cancelling matters
Cancel(tm, t) ==
    IF t # None /\ tm[t].state = "sleeping"
    THEN [tm EXCEPT ![t].state = "cancelled"]
    ELSE tm

\* cleanup_prewarm(workflow_id) up to its await of session.stop()
CleanupPrewarmEffect(w) ==
    LET t == prewarm_cleanup_tasks[w]
        o == prewarmed_sessions[w]
    IN  /\ prewarm_cleanup_tasks' = Pop(prewarm_cleanup_tasks, w)
        /\ timers' = Cancel(timers, t)
        /\ prewarmed_sessions' = Pop(prewarmed_sessions, w)
        /\ objs' = IF o # None THEN stop(objs, o, "cleanup_prewarm") ELSE objs
        /\ cleaned' = [w |-> w, result |-> o # None]

\* prewarm_session: the membership test; an entry exists, log and return
PrewarmSkips(w) ==
    /\ prewarmed_sessions[w] # None
    /\ UNCHANGED <<mgrvars, wfvars, sessvars, restvars>>

\* prewarm_session: no entry; construct the session and suspend in start()
PrewarmBegins(w) ==
    /\ prewarmed_sessions[w] = None
    /\ FreeObjects # {}
    /\ objs' = [objs EXCEPT ![Fresh] = NewObject(prewarm_id(w), w, "prewarm")]
    /\ pending' = pending \cup {[op |-> "prewarm", w |-> w, sid |-> None, o |-> Fresh]}
    /\ UNCHANGED <<sessions, prewarmed_sessions, prewarm_cleanup_tasks, timers, ret, cleaned, closing, wfvars, sessvars, restvars>>

\* prewarm_session after start(): register the session, create and track the
\* expiry task
PrewarmRegisters(c) ==
    /\ c \in pending /\ c.op = "prewarm"
    /\ pending' = pending \ {c}
    /\ prewarmed_sessions' = [prewarmed_sessions EXCEPT ![c.w] = c.o]
    /\ timers' = [timers EXCEPT ![c.o] = [state |-> "sleeping", w |-> c.w]]
    /\ prewarm_cleanup_tasks' = [prewarm_cleanup_tasks EXCEPT ![c.w] = c.o]
    /\ UNCHANGED <<sessions, objs, ret, cleaned, closing, wfvars, sessvars, restvars>>

\* prewarm_session: constructing the session raises; the handler awaits
\* cleanup_prewarm(workflow_id)
PrewarmRaises(w) ==
    /\ prewarmed_sessions[w] = None
    /\ CleanupPrewarmEffect(w)
    /\ UNCHANGED <<sessions, pending, ret, closing, wfvars, sessvars, restvars>>

\* the pre-warm registry after a claim has taken the entry of w
ClaimedFrom_NotRemoved(reg, w) == reg

ClaimedFrom(reg, w) == Pop(reg, w)

\* get_or_create_session with a pre-warm entry: the claim (no await in it)
Claims(sid, w) ==
    LET o == prewarmed_sessions[w]
        t == prewarm_cleanup_tasks[w]
    IN  /\ o # None
        /\ prewarmed_sessions' = ClaimedFrom(prewarmed_sessions, w)
        /\ prewarm_cleanup_tasks' = Pop(prewarm_cleanup_tasks, w)
        /\ timers' = Cancel(timers, t)
        /\ objs' = [objs EXCEPT ![o].session_id = sid, ![o].claimed = @ + 1]
        /\ sessions' = [sessions EXCEPT ![sid] = o]
        /\ ret' = o
        /\ UNCHANGED <<pending, cleaned, closing, wfvars, sessvars, restvars>>

\* get_or_create_session without one: create_session constructs the session
\* and suspends in start()
CreateBegins(sid, w) ==
    /\ prewarmed_sessions[w] = None
    /\ FreeObjects # {}
    /\ objs' = [objs EXCEPT ![Fresh] = NewObject(sid, w, "create")]
    /\ pending' = pending \cup {[op |-> "create", w |-> w, sid |-> sid, o |-> Fresh]}
    /\ UNCHANGED <<sessions, prewarmed_sessions, prewarm_cleanup_tasks, timers, ret, cleaned, closing, wfvars, sessvars, restvars>>

\* create_session after start(): register and return the session
CreateRegisters(c) ==
    /\ c \in pending /\ c.op = "create"
    /\ pending' = pending \ {c}
    /\ sessions' = [sessions EXCEPT ![c.sid] = c.o]
    /\ ret' = c.o
    /\ UNCHANGED <<prewarmed_sessions, prewarm_cleanup_tasks, objs, timers, cleaned, closing, wfvars, sessvars, restvars>>

CleanupPrewarm(w) ==
    /\ CleanupPrewarmEffect(w)
    /\ UNCHANGED <<sessions, pending, ret, closing, wfvars, sessvars, restvars>>

\* _cleanup_prewarmed_session after its sleep: pop the entry of its workflow
\* id and stop whatever session was there
TimerFires(t) ==
    LET w == timers[t].w
        o == prewarmed_sessions[w]
    IN  /\ timers[t].state = "sleeping"
        /\ timers' = [timers EXCEPT ![t].state = "stopping"]
        /\ prewarmed_sessions' = Pop(prewarmed_sessions, w)
        /\ objs' = IF o # None THEN stop(objs, o, "expiry") ELSE objs
        /\ UNCHANGED <<sessions, prewarm_cleanup_tasks, pending, ret, cleaned, closing, wfvars, sessvars, restvars>>

\* the expiry task is done (it has stopped the session, or was cancelled):
\* its done-callback pops whatever task is tracked under its workflow id
TimerDone(t) ==
    /\ timers[t].state \in {"stopping", "cancelled"}
    /\ timers' = [timers EXCEPT ![t].state = "done"]
    /\ prewarm_cleanup_tasks' = Pop(prewarm_cleanup_tasks, timers[t].w)
    /\ UNCHANGED <<sessions, prewarmed_sessions, objs, pending, ret, cleaned, closing, wfvars, sessvars, restvars>>

close_session(sid) ==
    LET o == sessions[sid]
    IN  /\ o # None
        /\ sessions' = Pop(sessions, sid)
        /\ objs' = stop(objs, o, "close_session")
        /\ UNCHANGED <<prewarmed_sessions, prewarm_cleanup_tasks, timers, pending, ret, cleaned, closing, wfvars, sessvars, restvars>>

(* ---- close_all_sessions: one call, suspended in each session.stop() ---- *)

\* list(self.sessions.keys()) / list(self.prewarmed_sessions.keys())
Keys(reg) == {k \in DOMAIN reg : reg[k] # None}

\* the keys the loop over the active sessions has still to visit
SessionKeysLeft ==
    IF closing.pc = "idle" THEN Keys(sessions)
    ELSE IF closing.pc = "sessions" THEN closing.keys ELSE {}

\* the loop over the active sessions has nothing left that suspends it
\* (close_session returns at once for a key that is no longer registered)
SessionLoopOver ==
    /\ closing.pc \in {"idle", "sessions"}
    /\ SessionKeysLeft \cap Keys(sessions) = {}

\* the keys the loop over the pre-warmed sessions has still to visit
PrewarmKeysLeft ==
    IF closing.pc = "prewarm" THEN closing.keys ELSE Keys(prewarmed_sessions)

\* the sessions registered when close_all_sessions is called
Registered ==
    {sessions[k] : k \in Keys(sessions)} \cup
    {prewarmed_sessions[k] : k \in Keys(prewarmed_sessions)}

\* close_all_sessions: the next close_session(session_id) of the first loop,
\* up to its await of session.stop()
CloseAllClosesSession ==
    \E sid \in SessionKeysLeft \cap Keys(sessions) :
        /\ closing.pc \in {"idle", "sessions"}
        /\ sessions' = Pop(sessions, sid)
        /\ objs' = stop(objs, sessions[sid], "close_session")
        /\ closing' = [pc |-> "sessions", keys |-> SessionKeysLeft \ {sid},
                       seen |-> IF closing.pc = "idle" THEN Registered ELSE closing.seen]
        /\ UNCHANGED <<prewarmed_sessions, prewarm_cleanup_tasks, timers, pending, ret,
                       cleaned, wfvars, sessvars, restvars>>

\* close_all_sessions: the first loop is over; the next
\* cleanup_prewarm(workflow_id) of the second loop, up to its await of
\* session.stop()
CloseAllCleansPrewarm ==
    \E w \in PrewarmKeysLeft \cap Keys(prewarmed_sessions) :
        /\ closing.pc = "prewarm" \/ SessionLoopOver
        /\ CleanupPrewarmEffect(w)
        /\ closing' = [pc |-> "prewarm", keys |-> PrewarmKeysLeft \ {w},
                       seen |-> IF closing.pc = "idle" THEN Registered ELSE closing.seen]
        /\ UNCHANGED <<sessions, pending, ret, wfvars, sessvars, restvars>>

\* close_all_sessions: both loops are over; every task still tracked is
\* cancelled, the tracking registry is cleared and the call returns
CloseAllClears ==
    /\ closing.pc = "prewarm" \/ SessionLoopOver
    /\ PrewarmKeysLeft \cap Keys(prewarmed_sessions) = {}
    /\ timers' = [t \in ObjectIds |->
                    IF /\ \E w \in WorkflowIds : prewarm_cleanup_tasks[w] = t
                       /\ timers[t].state = "sleeping"
                    THEN [timers[t] EXCEPT !.state = "cancelled"]
                    ELSE timers[t]]
    /\ prewarm_cleanup_tasks' = [w \in WorkflowIds |-> None]
    /\ closing' = [pc |-> "done", keys |-> {},
                   seen |-> IF closing.pc = "idle" THEN Registered ELSE closing.seen]
    /\ UNCHANGED <<sessions, prewarmed_sessions, objs, pending, ret, cleaned, wfvars,
                   sessvars, restvars>>

ManagerInit ==
    /\ sessions = [sid \in SessionIds |-> None]
    /\ prewarmed_sessions = [w \in WorkflowIds |-> None]
    /\ prewarm_cleanup_tasks = [w \in WorkflowIds |-> None]
    /\ objs = [o \in ObjectIds |-> NoObject]
    /\ timers = [o \in ObjectIds |-> [state |-> "unused", w |-> None]]
    /\ pending = {}
    /\ ret = None
    /\ cleaned = [w |-> None, result |-> FALSE]
    /\ closing = [pc |-> "idle", keys |-> {}, seen |-> {}]

ManagerNext ==
    \/ \E w \in WorkflowIds : PrewarmSkips(w)
    \/ \E w \in WorkflowIds : PrewarmBegins(w)
    \/ \E c \in pending : PrewarmRegisters(c)
    \/ \E w \in WorkflowIds : PrewarmRaises(w)
    \/ \E sid \in SessionIds, w \in WorkflowIds : Claims(sid, w)
    \/ \E sid \in SessionIds, w \in WorkflowIds : CreateBegins(sid, w)
    \/ \E c \in pending : CreateRegisters(c)
    \/ \E w \in WorkflowIds : CleanupPrewarm(w)
    \/ \E t \in ObjectIds : TimerFires(t)
    \/ \E t \in ObjectIds : TimerDone(t)
    \/ \E sid \in SessionIds : close_session(sid)

\* the manager during one close_all_sessions call
ShutdownNext ==
    \/ \E w \in WorkflowIds : PrewarmSkips(w)
    \/ \E w \in WorkflowIds : Made < MaxClosingObjects /\ PrewarmBegins(w)
    \/ \E c \in pending : PrewarmRegisters(c)
    \/ \E w \in WorkflowIds : PrewarmRaises(w)
    \/ \E sid \in SessionIds, w \in WorkflowIds : Claims(sid, w)
    \/ \E sid \in SessionIds, w \in WorkflowIds :
            Made < MaxClosingObjects /\ CreateBegins(sid, w)
    \/ \E c \in pending : CreateRegisters(c)
    \/ \E w \in WorkflowIds : CleanupPrewarm(w)
    \/ \E t \in ObjectIds : TimerFires(t)
    \/ \E t \in ObjectIds : TimerDone(t)
    \/ \E sid \in SessionIds : close_session(sid)
    \/ CloseAllClosesSession
    \/ CloseAllCleansPrewarm
    \/ CloseAllClears

(* ---- initiate_call (api/routes/calls.py) and its pre-warm task ---- *)

\* the task initiate_call created for prewarm_session(w) has not run yet
PrewarmTaskWaiting(w) ==
    \A o \in ObjectIds : ~(objs[o].workflow_id = w /\ objs[o].origin = "prewarm")

\* initiate_call up to `await temporal_client.start_workflow(...)`: the
\* workflow id is generated and the pre-warm task is created; the task runs
\* once the event loop gets control
InitiateCall(w) ==
    /\ api[w] = "idle"
    /\ api' = [api EXCEPT ![w] = "start_workflow"]
    /\ UNCHANGED <<mgrvars, wfvars, sessvars, adaptervars, codec, watchdog, forced_prompts,
                   send_ignored, first_audio_frame_at>>

\* the pre-warm task runs prewarm_session(w) up to `await session.start()`
PrewarmTaskRuns(w) ==
    /\ api[w] # "idle"
    /\ PrewarmTaskWaiting(w)
    /\ PrewarmBegins(w)

\* start_workflow returns a handle: initiate_call returns 201
StartWorkflowReturns(w) ==
    /\ api[w] = "start_workflow"
    /\ api' = [api EXCEPT ![w] = "returned"]
    /\ UNCHANGED <<mgrvars, wfvars, sessvars, adaptervars, codec, watchdog, forced_prompts,
                   send_ignored, first_audio_frame_at>>

\* start_workflow raises: the handler calls cleanup_prewarm(w), which suspends
\* in session.stop() when it found an entry and returns False at once when it
\* found none; then the handler raises HTTPException
StartWorkflowRaises(w) ==
    /\ api[w] = "start_workflow"
    /\ CleanupPrewarmEffect(w)
    /\ api' = [api EXCEPT ![w] = IF prewarmed_sessions[w] # None
                                 THEN "cleanup_prewarm" ELSE "error"]
    /\ UNCHANGED <<sessions, pending, ret, closing, wfvars, sessvars, adaptervars, codec,
                   watchdog, forced_prompts, send_ignored, first_audio_frame_at>>

\* session.stop() has returned to cleanup_prewarm: initiate_call raises
\* HTTPException
CleanupReturns(w) ==
    /\ api[w] = "cleanup_prewarm"
    /\ api' = [api EXCEPT ![w] = "error"]
    /\ UNCHANGED <<mgrvars, wfvars, sessvars, adaptervars, codec, watchdog, forced_prompts,
                   send_ignored, first_audio_frame_at>>

\* the requests initiate_call serves, the pre-warm tasks they create, and the
\* media streams of the calls whose workflow was started
InitiateNext ==
    \/ \E w \in WorkflowIds : InitiateCall(w)
    \/ \E w \in WorkflowIds : PrewarmTaskRuns(w)
    \/ \E c \in pending : PrewarmRegisters(c)
    \/ \E w \in WorkflowIds : StartWorkflowReturns(w)
    \/ \E w \in WorkflowIds : StartWorkflowRaises(w)
    \/ \E w \in WorkflowIds : CleanupReturns(w)
    \/ \E sid \in SessionIds, w \in WorkflowIds : api[w] = "returned" /\ Claims(sid, w)
    \/ \E sid \in SessionIds, w \in WorkflowIds : api[w] = "returned" /\ CreateBegins(sid, w)
    \/ \E c \in pending : CreateRegisters(c)
    \/ \E t \in ObjectIds : TimerFires(t)
    \/ \E t \in ObjectIds : TimerDone(t)
    \/ \E sid \in SessionIds : close_session(sid)

(***************************************************************************)
(*            AudioBridgeSession: the inbound frame path                   *)
(* The media handler of the websocket route creates one task per media     *)
(* event; each task runs send_audio_from_twilio, which suspends once, in   *)
(* `await loop.run_in_executor(...)`.  _send_realtime is the single task   *)
(* that empties out_queue into the AI endpoint.                            *)
(***************************************************************************)
maxsize == 100          \* asyncio.Queue(maxsize=100)
max_workers == 2        \* ThreadPoolExecutor(max_workers=2)
maxlen == 50            \* deque(maxlen=50)

MaxFrames == 103        \* media events of one stream (frames all alike)
MaxConverting == 21     \* send tasks suspended in run_in_executor at once
MaxForwarded == 2       \* frames the AI endpoint accepts during the stream
MaxOrderedFrames == 4   \* media events of one stream (frames numbered)
MaxLifeFrames == 2      \* media events during the life of a session
MaxAIEvents == 3        \* events the AI endpoint sends during the life of a session
MaxStops == 2           \* stop() calls on one session
MaxTurns == 3           \* turns _receive_audio starts to receive
MaxTranscripts == 52    \* transcript segments the receiver appends

\* queue_utilization > 0.8, with queue_utilization = queue_depth / maxsize
EarlyBackpressure_WhenFull(depth) == depth >= maxsize

\* mutant: no frame is dropped before its conversion
EarlyBackpressure_Never(depth) == FALSE

EarlyBackpressure(depth) == 5 * depth > 4 * maxsize

\* types.Blob(data=pcm_audio, mime_type="audio/pcm;rate=16000") of the
\* converted frame; data stands for the frame the samples came from
Blob(f) == [data |-> f, mime_type |-> "audio/pcm;rate=16000"]

Remove(s, i) == SubSeq(s, 1, i - 1) \o SubSeq(s, i + 1, Len(s))

\* the conversions the pool is running: the first max_workers submitted
Running == 1..(IF Len(executor) < max_workers THEN Len(executor) ELSE max_workers)

\* mutant: the send path does not test self.active
Inactive_Never(a) == FALSE

\* `if not self.active: return`
Inactive(a) == ~a

\* A media event for frame f: the handler creates the send task, which runs
\* up to its return or up to run_in_executor.
SendAudioFromTwilio(f, frames, converting) ==
    /\ total_frames_sent < frames
    /\ IF Inactive(active)
       THEN /\ send_ignored' = IF send_ignored = "unrecorded" THEN send_ignored ELSE "yes"
            /\ UNCHANGED <<total_frames_sent, dropped_frames, executor>>
       ELSE /\ total_frames_sent' = total_frames_sent + 1
            /\ UNCHANGED send_ignored
            /\ IF EarlyBackpressure(Len(out_queue))
               THEN /\ dropped_frames' = dropped_frames + 1
                    /\ UNCHANGED executor
               ELSE /\ Len(executor) < converting
                    /\ executor' = Append(executor, f)
                    /\ UNCHANGED dropped_frames
    /\ UNCHANGED <<out_queue, sending, ai_received, lifevars, recvvars, turnvars, tsvars, wfvars,
                   mgrvars, othervars, first_audio_frame_at>>

\* twilio_to_gemini returns for the i-th submitted frame: its send task
\* resumes and runs to the end (put_nowait, or the QueueFull handler).
ConversionCompletes(i) ==
    /\ i \in Running
    /\ executor' = Remove(executor, i)
    /\ IF Len(out_queue) < maxsize
       THEN /\ out_queue' = Append(out_queue, Blob(executor[i]))
            /\ UNCHANGED dropped_frames
       ELSE /\ dropped_frames' = dropped_frames + 1
            /\ UNCHANGED out_queue
    /\ UNCHANGED <<total_frames_sent, sending, ai_received, lifevars, recvvars,
                   turnvars, tsvars, wfvars,
                   mgrvars, restvars>>

\* twilio_to_gemini raises for the i-th submitted frame (a payload that is
\* not base64): the outer handler logs the error and the task ends.
ConversionRaises(i) ==
    /\ i \in Running
    /\ executor' = Remove(executor, i)
    /\ UNCHANGED <<total_frames_sent, dropped_frames, out_queue, sending,
                   ai_received, lifevars, recvvars, turnvars, tsvars, wfvars,
                   mgrvars, restvars>>

\* `self.session_task and not self.session_task.done()`
TaskLive(t) == t \in {"connecting", "running", "cancelling"}

\* mutant: stop() cancels the session task whether or not it is done
Cancelled_Always(t) == "cancelling"

\* session_task.cancel() under the guard of stop()
Cancelled(t) == IF t \in {"connecting", "running"} THEN "cancelling" ELSE t

\* mutant: stop() does not await the session task
Terminated_NoWait(t) == TRUE

\* `await self.session_task` in stop() returns (or was skipped)
Terminated(t) == ~TaskLive(t)

Receiving == [pc |-> "receive", interrupted |-> FALSE]

\* _run_session: the AI endpoint is connected and the task group starts
\* _send_realtime, which suspends in out_queue.get(), and _receive_audio,
\* which suspends in the iteration over session.receive().
SenderStarts ==
    /\ sender = "not_started"
    /\ session_task = "connecting"
    /\ active
    /\ sender' = "get"
    /\ session_task' = "running"
    /\ receiver' = Receiving
    /\ turn_count' = turn_count + 1
    /\ UNCHANGED <<active, pool, stops, framevars, audio_in_queue, interruption_count,
                   total_frames_received, to_twilio, ai_events, barge_ins, stale_mark,
                   session_id, tsvars, wfvars, mgrvars, restvars>>

\* _run_session: live.connect raises; `except Exception` logs the error and
\* the session task ends.
RunnerFails ==
    /\ session_task = "connecting"
    /\ session_task' = "failed"
    /\ UNCHANGED <<active, sender, pool, stops, framevars, recvvars, turnvars, tsvars, wfvars,
                   mgrvars, restvars>>

\* out_queue.get() returns the oldest frame; the task suspends in
\* send_realtime_input.
SenderGets(forwarded) ==
    /\ sender = "get"
    /\ out_queue # <<>>
    /\ Len(ai_received) < forwarded
    /\ sending' = Head(out_queue)
    /\ out_queue' = Tail(out_queue)
    /\ sender' = "send_realtime_input"
    /\ UNCHANGED <<active, session_task, pool, stops, total_frames_sent, dropped_frames,
                   executor, ai_received, recvvars, turnvars, tsvars, wfvars,
                   mgrvars, restvars>>

\* send_realtime_input returns; the loop tests self.active again.
SenderSent ==
    /\ sender = "send_realtime_input"
    /\ ai_received' = Append(ai_received, sending)
    /\ sending' = None
    /\ sender' = IF active THEN "get" ELSE "done"
    /\ UNCHANGED <<active, session_task, pool, stops, total_frames_sent, dropped_frames,
                   out_queue, executor, recvvars, turnvars, tsvars, wfvars,
                   mgrvars, restvars>>

\* send_realtime_input raises (the connection to the AI endpoint is lost):
\* `except Exception` of _send_realtime logs the error and the task returns;
\* the task group sees a task that has finished and cancels nothing.
SenderFails ==
    /\ sender = "send_realtime_input"
    /\ sender' = "failed"
    /\ sending' = None
    /\ UNCHANGED <<active, session_task, pool, stops, total_frames_sent, dropped_frames,
                   out_queue, executor, ai_received, recvvars, turnvars, tsvars, wfvars,
                   mgrvars, restvars>>

(* ---- _receive_audio and receive_audio_for_twilio ---- *)

\* The AI endpoint sends an event; _receive_audio handles it up to its end or
\* up to run_in_executor.  An event with audio data is converted and ends in
\* `continue`; otherwise an event flagged interrupted empties audio_in_queue.
AIEvent(data, interrupted, events) ==
    /\ receiver.pc = "receive"
    /\ ai_events < events
    /\ data \/ interrupted
    /\ ai_events' = ai_events + 1
    /\ IF ~active
       THEN /\ receiver' = [pc |-> "done", interrupted |-> FALSE]
            /\ UNCHANGED <<audio_in_queue, interruption_count, barge_ins, stale_mark>>
       ELSE IF data
       THEN /\ receiver' = [pc |-> "gemini_to_twilio", interrupted |-> interrupted]
            /\ UNCHANGED <<audio_in_queue, interruption_count, barge_ins, stale_mark>>
       ELSE /\ interruption_count' = interruption_count + 1
            /\ audio_in_queue' = <<>>
            /\ barge_ins' = barge_ins + 1
            /\ stale_mark' = total_frames_received
            /\ UNCHANGED receiver
    /\ first_audio_frame_at' = IF active /\ data /\ first_audio_frame_at = None
                               THEN "set" ELSE first_audio_frame_at
    /\ UNCHANGED <<total_frames_received, to_twilio, framevars, lifevars, turnvars, tsvars, wfvars,
                   mgrvars, othervars, send_ignored>>

\* the event in hand has been handled to its end
EventHandled ==
    /\ receiver' = Receiving
    /\ IF receiver.interrupted
       THEN barge_ins' = barge_ins + 1 /\ stale_mark' = total_frames_received
       ELSE UNCHANGED <<barge_ins, stale_mark>>

\* gemini_to_twilio returns: the frame is put on audio_in_queue, `continue`.
ReceiverConverted ==
    /\ receiver.pc = "gemini_to_twilio"
    /\ audio_in_queue' = Append(audio_in_queue, total_frames_received + 1)
    /\ total_frames_received' = total_frames_received + 1
    /\ EventHandled
    /\ UNCHANGED <<interruption_count, to_twilio, ai_events, framevars, lifevars,
                   turnvars, tsvars, wfvars,
                   mgrvars, restvars>>

\* gemini_to_twilio raises: the error is logged, `continue`.
ReceiverConversionRaises ==
    /\ receiver.pc = "gemini_to_twilio"
    /\ EventHandled
    /\ UNCHANGED <<audio_in_queue, interruption_count, total_frames_received, to_twilio,
                   ai_events, framevars, lifevars, turnvars, tsvars, wfvars,
                   mgrvars, restvars>>

\* session.receive() raises: `except Exception` logs the error and
\* _receive_audio ends; the other tasks of the group go on.
ReceiverFails ==
    /\ receiver.pc = "receive"
    /\ receiver' = [pc |-> "failed", interrupted |-> FALSE]
    /\ UNCHANGED <<audio_in_queue, interruption_count, total_frames_received, to_twilio,
                   ai_events, barge_ins, stale_mark, framevars, lifevars, turnvars, tsvars, wfvars,
                   mgrvars, restvars>>

\* receive_audio_for_twilio, called by the playback task, returns the oldest
\* frame of audio_in_queue.
ReceiveForTelephony ==
    /\ audio_in_queue # <<>>
    /\ to_twilio' = Append(to_twilio, Head(audio_in_queue))
    /\ audio_in_queue' = Tail(audio_in_queue)
    /\ UNCHANGED <<receiver, interruption_count, total_frames_received, ai_events,
                   barge_ins, stale_mark, framevars, lifevars, turnvars, tsvars, wfvars,
                   mgrvars, restvars>>

\* mutant: audio of the AI endpoint is forwarded only while an inbound media
\* event is handled, one frame for each event
PlaybackForwards_OnMedia ==
    /\ stops[1] = "idle"
    /\ total_frames_sent > Len(to_twilio)
    /\ ReceiveForTelephony

\* One iteration of _playback_task: asyncio.sleep(0.020) returns,
\* receive_audio_for_twilio returns a frame and websocket.send_json sends it.
\* The task is one of the tracked tasks of the stream, which the handler
\* cancels before it calls close_session.
PlaybackForwards ==
    /\ stops[1] = "idle"
    /\ ReceiveForTelephony

(* ---- turns of _receive_audio and the pre-warm gate ---- *)

\* session_id.startswith("prewarm-")
IsPrewarm(id) == \E w \in WorkflowIds : id = prewarm_id(w)

\* mutant: the gate closes after the second turn
WaitsForClaim_AfterSecondTurn(id, n) == IsPrewarm(id) /\ n >= 2

\* `is_prewarming and turn_count >= 1`
WaitsForClaim(id, n) == IsPrewarm(id) /\ n >= 1

\* the iteration over a turn ends: the loop tests self.active, then the gate;
\* it suspends in asyncio.sleep(0.1) behind the gate or starts the next turn
TurnCompletes(turns) ==
    /\ receiver.pc = "receive"
    /\ turn_count < turns
    /\ IF ~active
       THEN receiver' = [pc |-> "done", interrupted |-> FALSE] /\ UNCHANGED turn_count
       ELSE IF WaitsForClaim(session_id, turn_count)
       THEN receiver' = [pc |-> "wait_claim", interrupted |-> FALSE] /\ UNCHANGED turn_count
       ELSE receiver' = Receiving /\ turn_count' = turn_count + 1
    /\ UNCHANGED <<audio_in_queue, interruption_count, total_frames_received, to_twilio,
                   ai_events, barge_ins, stale_mark, session_id, tsvars, framevars,
                   lifevars, wfvars, mgrvars, restvars>>

\* asyncio.sleep(0.1) behind the gate returns and the session has been
\* re-keyed: the next turn starts (while it has the pre-warm id the loop
\* sleeps again)
ReceiverPolls ==
    /\ receiver.pc = "wait_claim"
    /\ ~(active /\ IsPrewarm(session_id))
    /\ IF ~active
       THEN receiver' = [pc |-> "done", interrupted |-> FALSE] /\ UNCHANGED turn_count
       ELSE receiver' = Receiving /\ turn_count' = turn_count + 1
    /\ UNCHANGED <<audio_in_queue, interruption_count, total_frames_received, to_twilio,
                   ai_events, barge_ins, stale_mark, session_id, tsvars, framevars,
                   lifevars, wfvars, mgrvars, restvars>>

\* get_or_create_session claims the pre-warmed session (it is still in the
\* pre-warm registry, so no stop() has been called): session.session_id = session_id
ClaimRekeys ==
    /\ IsPrewarm(session_id)
    /\ \A k \in DOMAIN stops : stops[k] = "idle"
    /\ session_id' = "s1"
    /\ UNCHANGED <<turn_count, tsvars, framevars, lifevars, recvvars, wfvars, mgrvars, restvars>>

(* ---- transcript_buffer ---- *)

\* deque.append on a deque(maxlen=50): a full deque discards its oldest item
DequeAppend(buf, x) ==
    IF Len(buf) < maxlen THEN Append(buf, x) ELSE Append(Tail(buf), x)

Range(q) == {q[i] : i \in DOMAIN q}

\* mutant: get_transcript_buffer returns the items and does not clear
Cleared_NotCleared(buf) == buf

\* self.transcript_buffer.clear()
Cleared(buf) == <<>>

\* _receive_audio handles an event that carries text or a transcription: a
\* segment is appended to transcript_buffer
TranscriptAppended(segments) ==
    /\ receiver.pc = "receive"
    /\ active
    /\ appended < segments
    /\ appended' = appended + 1
    /\ transcript_buffer' = DequeAppend(transcript_buffer, appended + 1)
    /\ evicted' = evicted \cup (Range(transcript_buffer) \ Range(transcript_buffer'))
    /\ UNCHANGED <<returned, turnvars, framevars, lifevars, recvvars, wfvars, mgrvars, restvars>>

\* get_transcript_buffer, called by the transcript sync task and by the
\* media handler when the stream ends: no await between list() and clear()
get_transcript_buffer ==
    /\ returned' = returned \o transcript_buffer
    /\ transcript_buffer' = Cleared(transcript_buffer)
    /\ UNCHANGED <<appended, evicted, turnvars, framevars, lifevars, recvvars, wfvars,
                   mgrvars, restvars>>

(* ---- stop() ---- *)

\* A stop() call up to its first await: active becomes False and the session
\* task, if it is not done, is cancelled, which ends _send_realtime and
\* _receive_audio at their awaits; the call awaits the session task.
SessionStops(calls) ==
    \E k \in 1..calls :
        /\ stops[k] = "idle"
        /\ k > 1 => stops[k - 1] # "idle"
        /\ stops' = [stops EXCEPT ![k] = "await_task"]
        /\ active' = FALSE
        /\ session_task' = Cancelled(session_task)
        /\ IF session_task' = "cancelling" /\ session_task # "cancelling"
           THEN /\ sender' = "cancelled"
                /\ sending' = None
                /\ receiver' = [pc |-> "cancelled", interrupted |-> FALSE]
           ELSE UNCHANGED <<sender, sending, receiver>>
        /\ UNCHANGED <<pool, total_frames_sent, dropped_frames, out_queue, executor,
                       ai_received, audio_in_queue, interruption_count,
                       total_frames_received, to_twilio, ai_events, barge_ins,
                       stale_mark, turnvars, tsvars, wfvars,
                   mgrvars, restvars>>

\* the cancelled session task has left its task group and the connection
SessionTaskEnds ==
    /\ session_task = "cancelling"
    /\ session_task' = "done"
    /\ UNCHANGED <<active, sender, pool, stops, framevars, recvvars, turnvars, tsvars, wfvars,
                   mgrvars, restvars>>

\* A stop() call after `await self.session_task`: the pool is shut down
\* without waiting (conversions already submitted still return to their
\* tasks) and the call returns.
StopShutsDown ==
    \E k \in DOMAIN stops :
        /\ stops[k] = "await_task"
        /\ Terminated(session_task)
        /\ pool' = "shutdown"
        /\ stops' = [stops EXCEPT ![k] = "returned"]
        /\ UNCHANGED <<active, sender, session_task, framevars, recvvars, turnvars, tsvars, wfvars,
                   mgrvars, restvars>>

\* AudioBridgeSession(id, ...) followed by start(): the session task is created
\* and is connecting to the AI endpoint
SessionStart(id) ==
    /\ active = TRUE
    /\ total_frames_sent = 0
    /\ dropped_frames = 0
    /\ out_queue = <<>>
    /\ executor = <<>>
    /\ sender = "not_started"
    /\ sending = None
    /\ ai_received = <<>>
    /\ session_task = "connecting"
    /\ pool = "open"
    /\ stops = [k \in 1..MaxStops |-> "idle"]
    /\ receiver = [pc |-> "not_started", interrupted |-> FALSE]
    /\ audio_in_queue = <<>>
    /\ interruption_count = 0
    /\ total_frames_received = 0
    /\ to_twilio = <<>>
    /\ ai_events = 0
    /\ barge_ins = 0
    /\ stale_mark = 0
    /\ session_id = id
    /\ turn_count = 0
    /\ transcript_buffer = <<>>
    /\ appended = 0
    /\ returned = <<>>
    /\ evicted = {}

\* a session constructed by create_session for the media stream s1
SessionInit == SessionStart("s1")

\* a stream whose frames are all alike
SessionNext ==
    \/ SendAudioFromTwilio(0, MaxFrames, MaxConverting)
    \/ \E i \in 1..max_workers : ConversionCompletes(i)
    \/ \E i \in 1..max_workers : ConversionRaises(i)
    \/ SenderStarts
    \/ SenderGets(MaxForwarded)
    \/ SenderSent
    \/ SessionStops(1)
    \/ SessionTaskEnds
    \/ StopShutsDown

\* a short stream whose frames carry their arrival number
FrameOrderNext ==
    \/ SendAudioFromTwilio(total_frames_sent + 1, MaxOrderedFrames, MaxOrderedFrames)
    \/ \E i \in 1..max_workers : ConversionCompletes(i)
    \/ \E i \in 1..max_workers : ConversionRaises(i)
    \/ SenderStarts
    \/ SenderGets(MaxOrderedFrames)
    \/ SenderSent
    \/ SessionStops(1)
    \/ SessionTaskEnds
    \/ StopShutsDown

\* the life of a session: connection, both directions of audio, stop() calls
LifecycleNext ==
    \/ SendAudioFromTwilio(total_frames_sent + 1, MaxLifeFrames, MaxLifeFrames)
    \/ \E i \in 1..max_workers : ConversionCompletes(i)
    \/ \E i \in 1..max_workers : ConversionRaises(i)
    \/ SenderStarts
    \/ RunnerFails
    \/ SenderGets(MaxLifeFrames)
    \/ SenderSent
    \/ \E data, interrupted \in BOOLEAN : AIEvent(data, interrupted, MaxAIEvents)
    \/ ReceiverConverted
    \/ ReceiverConversionRaises
    \/ ReceiverFails
    \/ ReceiveForTelephony
    \/ SessionStops(MaxStops)
    \/ SessionTaskEnds
    \/ StopShutsDown


\* the life of a session whose connection to the AI endpoint can fail in
\* either direction
SupervisionNext == LifecycleNext \/ SenderFails

(* ---- _ensure_first_audio_frame: the greeting watchdog ---- *)

FirstAudioSeen_Never(f) == FALSE

\* `self.first_audio_frame_at is not None`
FirstAudioSeen(f) == f # None

\* asyncio.sleep(3) or asyncio.sleep(8) returns in the running task group:
\* the watchdog returns when the session is not active or audio has arrived,
\* else it calls _send_initial_prompt(force=True), which calls session.send
\* with the greeting and suspends in it
WatchdogWakes ==
    /\ watchdog \in {"sleep_3", "sleep_8"}
    /\ session_task = "running"
    /\ IF ~active \/ FirstAudioSeen(first_audio_frame_at)
       THEN watchdog' = "returned" /\ UNCHANGED forced_prompts
       ELSE /\ watchdog' = IF watchdog = "sleep_3" THEN "send_3" ELSE "send_8"
            /\ forced_prompts' = forced_prompts + 1
    /\ UNCHANGED <<api, adaptervars, codec, send_ignored, first_audio_frame_at, sessvars,
                   wfvars, mgrvars>>

\* session.send returns, or raises and the error is logged: the loop goes on
\* to its second sleep, or ends
WatchdogSent ==
    /\ watchdog \in {"send_3", "send_8"}
    /\ session_task = "running"
    /\ watchdog' = IF watchdog = "send_3" THEN "sleep_8" ELSE "returned"
    /\ UNCHANGED <<api, forced_prompts, adaptervars, codec, send_ignored,
                   first_audio_frame_at, sessvars, wfvars, mgrvars>>

\* the life of a session and of its greeting watchdog
GreetingNext == LifecycleNext \/ WatchdogWakes \/ WatchdogSent

\* a pre-warmed session: the greeting turn, the claim, the turns after it
PrewarmNext ==
    \/ SenderStarts
    \/ \E data, interrupted \in BOOLEAN : AIEvent(data, interrupted, MaxAIEvents)
    \/ ReceiverConverted
    \/ ReceiverConversionRaises
    \/ TurnCompletes(MaxTurns)
    \/ ReceiverPolls
    \/ ClaimRekeys
    \/ ReceiveForTelephony
    \/ SessionStops(1)
    \/ SessionTaskEnds
    \/ StopShutsDown


\* the transcript buffer of a session, filled by the receiver and drained
TranscriptNext ==
    \/ SenderStarts
    \/ TranscriptAppended(MaxTranscripts)
    \/ get_transcript_buffer
    \/ SessionStops(1)
    \/ SessionTaskEnds
    \/ StopShutsDown

\* a media stream from its start event to its end: close_session, which the
\* handler calls after it has cancelled the tracked tasks, is SessionStops
PlaybackNext ==
    \/ SendAudioFromTwilio(total_frames_sent + 1, MaxLifeFrames, MaxLifeFrames)
    \/ \E i \in 1..max_workers : ConversionCompletes(i)
    \/ \E i \in 1..max_workers : ConversionRaises(i)
    \/ SenderStarts
    \/ SenderGets(MaxLifeFrames)
    \/ SenderSent
    \/ \E data, interrupted \in BOOLEAN : AIEvent(data, interrupted, MaxAIEvents)
    \/ ReceiverConverted
    \/ ReceiverConversionRaises
    \/ ReceiverFails
    \/ PlaybackForwards
    \/ SessionStops(1)
    \/ SessionTaskEnds
    \/ StopShutsDown

(***************************************************************************)
(*          The codec helpers of utils/audio.py                            *)
(* A payload is a string of base64 characters, of which the model tells    *)
(* three kinds apart: "A", a character of the base64 alphabet; "=", the    *)
(* padding character; "!", any other character.  PCM audio is a string of  *)
(* bytes.  An outcome is the length of the output, or the exception.       *)
(***************************************************************************)
MaxPayload == 5         \* characters of a payload given to twilio_to_gemini
MaxPcmBytes == 12       \* bytes of a chunk given to gemini_to_twilio

Returns(n) == [raised |-> "no", len |-> n]

Raises(exc) == [raised |-> exc, len |-> 0]

\* binascii.a2b_base64 as base64.b64decode(s) calls it (validate=False), from
\* character i on: quad is the position in the group of four, pads the
\* padding characters seen at quad >= 2 since the last data character, n
\* the bytes decoded so far.  A character outside the alphabet is skipped;
\* padding that completes a group ends the decoding; an incomplete group at
\* the end of the string raises binascii.Error.
RECURSIVE a2b_base64(_, _, _, _, _)
a2b_base64(s, i, quad, pads, n) ==
    IF i > Len(s)
    THEN IF quad # 0 THEN Raises("binascii.Error") ELSE Returns(n)
    ELSE IF s[i] = "="
    THEN IF quad >= 2 /\ quad + pads + 1 >= 4
         THEN Returns(n)
         ELSE a2b_base64(s, i + 1, quad, IF quad >= 2 THEN pads + 1 ELSE pads, n)
    ELSE IF s[i] = "!"
    THEN a2b_base64(s, i + 1, quad, pads, n)
    ELSE a2b_base64(s, i + 1, (quad + 1) % 4, 0, IF quad = 0 THEN n ELSE n + 1)

b64decode(s) == a2b_base64(s, 1, 0, 0, 0)

\* len(base64.b64encode(b)) for n bytes
b64encode(n) == 4 * ((n + 2) \div 3)

\* np.frombuffer(b, dtype) for n bytes and a dtype of size bytes each
frombuffer(n, size) ==
    IF n % size # 0 THEN Raises("ValueError") ELSE Returns(n \div size)

\* soxr.resample(x, from, to): the number of samples it returns for n
resample(n, from, to) == (2 * n * to + from) \div (2 * from)

twilio_to_gemini(mulaw_base64) ==
    LET mulaw_data == b64decode(mulaw_base64)
    IN  IF mulaw_data.raised # "no" THEN mulaw_data
        ELSE LET mulaw_array == frombuffer(mulaw_data.len, 1)
             IN  Returns(2 * resample(mulaw_array.len, 8000, 16000))

gemini_to_twilio(pcm_24khz) ==
    LET pcm_array == frombuffer(Len(pcm_24khz), 2)
    IN  IF pcm_array.raised # "no" THEN pcm_array
        ELSE Returns(b64encode(resample(pcm_array.len, 24000, 8000)))

\* the strings of at most n characters of the set chars
RECURSIVE Strings(_, _)
Strings(chars, n) ==
    IF n = 0 THEN {<<>>}
    ELSE LET shorter == Strings(chars, n - 1)
         IN  shorter \cup {Append(t, c) : t \in shorter, c \in chars}

CodecInit == codec = [fn |-> "none", input |-> <<>>, outcome |-> Returns(0)]

ToAIFormat ==
    /\ \E s \in Strings({"A", "=", "!"}, MaxPayload) :
          codec' = [fn |-> "twilio_to_gemini", input |-> s,
                    outcome |-> twilio_to_gemini(s)]
    /\ UNCHANGED <<adaptervars, send_ignored, sidevars, first_audio_frame_at, wfvars, mgrvars,
                   sessvars>>

FromAIFormat ==
    /\ \E s \in Strings({"b"}, MaxPcmBytes) :
          codec' = [fn |-> "gemini_to_twilio", input |-> s,
                    outcome |-> gemini_to_twilio(s)]
    /\ UNCHANGED <<adaptervars, send_ignored, sidevars, first_audio_frame_at, wfvars, mgrvars,
                   sessvars>>

CodecNext == ToAIFormat \/ FromAIFormat

(***************************************************************************)
(*      media_stream_handler (api/routes/twilio.py) and its sync tasks     *)
(* The handler signals the workflow through a client handle; a signal to   *)
(* a workflow that has completed raises.  The session the stream feeds is  *)
(* modelled above; here it is the source of the drained segments.          *)
(***************************************************************************)
MaxCycles == 2          \* sleeps of _sync_metrics_to_workflow during a stream

\* the methods of VoiceCallWorkflow decorated with @workflow.signal
SignalHandlers ==
    {"streaming_started", "streaming_ended", "transcripts_available",
     "call_status_changed", "set_call_sid"}

AdapterInit ==
    /\ handler = [pc |-> "connected", streaming_ended_sent |-> FALSE]
    /\ drained = 0
    /\ metrics_cycles = 0
    /\ metrics_signals = 0

\* no initiate_call request yet; the watchdog of the session is created with
\* the task group and sleeps first
SideInit ==
    /\ api = [w \in WorkflowIds |-> "idle"]
    /\ watchdog = "sleep_3"
    /\ forced_prompts = 0

RestInit ==
    /\ AdapterInit /\ CodecInit /\ SideInit
    /\ send_ignored = "unrecorded"
    /\ first_audio_frame_at = "unrecorded"

\* `await handle.signal(...)`: the handler named runs in the workflow unless
\* run() has exited, in which case the call raises
HandleSignal(name, arg, w) ==
    /\ IF wf.pc \in Exited
       THEN UNCHANGED <<wf, lastSig>>
       ELSE /\ wf' = w
            /\ lastSig' = [name |-> name, arg |-> arg,
                           rep |-> IF lastSig.name = name /\ lastSig.arg = arg
                                   THEN 2 ELSE 1]
    /\ UNCHANGED <<log, activity_args, script, beyondvars>>

\* handle_status_callback for a status other than answered and in-progress:
\* call_status_changed is its only signal (an error of the signal is logged)
StatusCallback(s) ==
    /\ HandleSignal("call_status_changed", s, call_status_changed(wf, s))
    /\ UNCHANGED restvars

\* the start event, which telephony sends for a call that has been placed:
\* the session is obtained, the tracked tasks are created and
\* streaming_started is signalled; if the signal raises, `except Exception`
\* logs the error and the finally block runs
StartEvent ==
    /\ handler.pc = "connected"
    /\ wf.call_sid # None
    /\ HandleSignal("streaming_started", "MZ1", streaming_started(wf, "MZ1"))
    /\ handler' = [handler EXCEPT !.pc = IF wf.pc \in Exited THEN "finally"
                                         ELSE "streaming"]
    /\ UNCHANGED <<drained, metrics_cycles, metrics_signals>>

\* _sync_transcripts_to_workflow: the sleep returns, n segments are drained
\* and signalled in one batch (an error of the signal is logged)
TranscriptSync ==
    /\ handler.pc = "streaming"
    /\ \E n \in 1..MaxSegments :
          /\ drained + n <= MaxSegments
          /\ drained' = drained + n
          /\ HandleSignal("transcripts_available", None, transcripts_available(wf, n))
    /\ UNCHANGED <<handler, metrics_cycles, metrics_signals>>

\* _sync_metrics_to_workflow: the sleep returns, the snapshot is taken and
\* `VoiceCallWorkflow.update_metrics` is evaluated for handle.signal; the
\* class has that attribute only if it defines the signal, and otherwise
\* `except Exception` logs the AttributeError and the loop goes on
MetricsSync(cycles) ==
    /\ handler.pc = "streaming"
    /\ metrics_cycles < cycles
    /\ metrics_cycles' = metrics_cycles + 1
    /\ metrics_signals' = IF "update_metrics" \in SignalHandlers /\ wf.pc \notin Exited
                          THEN metrics_signals + 1 ELSE metrics_signals
    /\ UNCHANGED <<handler, drained, wfvars, beyondvars>>

\* the stop event: streaming_ended is signalled, the flag is set and the
\* loop is left; if the signal raises the flag stays unset
StopEvent ==
    /\ handler.pc = "streaming"
    /\ HandleSignal("streaming_ended", None, streaming_ended(wf))
    /\ handler' = [pc |-> "finally", streaming_ended_sent |-> wf.pc \notin Exited]
    /\ UNCHANGED <<drained, metrics_cycles, metrics_signals>>

\* WebSocketDisconnect while the stream is on
Disconnect ==
    /\ handler.pc = "streaming"
    /\ handler' = [handler EXCEPT !.pc = "finally"]
    /\ UNCHANGED <<drained, metrics_cycles, metrics_signals, wfvars, beyondvars>>

\* the finally block: the tracked tasks are cancelled, the n segments left in
\* the buffer are drained and, if there are any, signalled (an error of the
\* signal is logged)
FinalFlush ==
    /\ handler.pc = "finally"
    /\ \E n \in 0..MaxSegments :
          /\ drained + n <= MaxSegments
          /\ drained' = drained + n
          /\ IF n > 0
             THEN HandleSignal("transcripts_available", None,
                               transcripts_available(wf, n))
             ELSE UNCHANGED <<wfvars, beyondvars>>
    /\ handler' = [handler EXCEPT !.pc = "close_session"]
    /\ UNCHANGED <<metrics_cycles, metrics_signals>>

\* close_session has returned; streaming_ended is signalled unless the stop
\* event has sent it (an error of the signal is logged)
HandlerEnds ==
    /\ handler.pc = "close_session"
    /\ IF handler.streaming_ended_sent
       THEN UNCHANGED <<wfvars, beyondvars>>
       ELSE HandleSignal("streaming_ended", None, streaming_ended(wf))
    /\ handler' = [handler EXCEPT !.pc = "done"]
    /\ UNCHANGED <<drained, metrics_cycles, metrics_signals>>

\* a call and its media stream: run(), the status webhook and the handler
\* with its sync tasks
StreamNext ==
    \/ ActivityCompletes
    \/ ActivityFails
    \/ WaitConnectReturns
    \/ WaitConnectTimesOut
    \/ WaitEndReturns
    \/ WaitEndTimesOut
    \/ \E s \in {"ringing", "completed"} : StatusCallback(s)
    \/ StartEvent
    \/ TranscriptSync
    \/ MetricsSync(MaxCycles)
    \/ StopEvent
    \/ Disconnect
    \/ FinalFlush
    \/ HandlerEnds

WorkflowStart ==
    /\ wf = WorkflowInit
    /\ log = <<"create_call_record">>
    /\ lastSig = NoSignal

vars == <<wf, log, lastSig, script, cleaned, closing, sessions, prewarmed_sessions, prewarm_cleanup_tasks,
          objs, timers, pending, ret, active, total_frames_sent, dropped_frames,
          out_queue, executor, sender, sending, ai_received, session_task, pool,
          stops, receiver, audio_in_queue, interruption_count,
          total_frames_received, to_twilio, ai_events, barge_ins, stale_mark,
          session_id, turn_count, transcript_buffer, appended, returned, evicted,
          activity_args, handler, drained, metrics_cycles, metrics_signals, codec,
          send_ignored, api, watchdog, forced_prompts, first_audio_frame_at>>

Init ==
    /\ WorkflowStart
    /\ activity_args = <<>>
    /\ script = NoScript
    /\ ManagerInit
    /\ SessionInit
    /\ RestInit

\* the same state, with the arguments of the activities recorded
StreamInit ==
    /\ WorkflowStart
    /\ activity_args = <<ActivityArgs(WorkflowInit)>>
    /\ script = NoScript
    /\ ManagerInit
    /\ SessionInit
    /\ RestInit

SpecWorkflow == Init /\ [][WorkflowNext]_vars

ScenarioInit ==
    /\ WorkflowStart
    /\ script \in {ScenarioA, ScenarioB}
    /\ activity_args = <<>>
    /\ ManagerInit
    /\ SessionInit
    /\ RestInit

SpecScenario == ScenarioInit /\ [][ScenarioNext]_vars

SpecManager == Init /\ [][ManagerNext]_vars

SpecShutdown == Init /\ [][ShutdownNext]_vars

SpecInitiate == Init /\ [][InitiateNext]_vars

\* asyncio.sleep(timeout) of an expiry task returns after the pre-warm
\* timeout unless the task is cancelled first, and a finished task runs its
\* done-callback
ExpiryFairness ==
    \A t \in ObjectIds : WF_vars(TimerFires(t)) /\ WF_vars(TimerDone(t))

SpecExpiry == Init /\ [][ManagerNext]_vars /\ ExpiryFairness

SpecSession == Init /\ [][SessionNext]_vars

SpecFrameOrder == Init /\ [][FrameOrderNext]_vars

SpecLifecycle == Init /\ [][LifecycleNext]_vars

\* a session constructed by prewarm_session for the workflow w1
PrewarmedInit ==
    /\ WorkflowStart
    /\ script = NoScript
    /\ ManagerInit
    /\ SessionStart(prewarm_id("w1"))
    /\ activity_args = <<>>
    /\ RestInit

SpecPrewarm == PrewarmedInit /\ [][PrewarmNext]_vars

SpecTranscript == Init /\ [][TranscriptNext]_vars

\* asyncio.sleep(0.020) of the playback task returns, whatever else happens
PlaybackFairness == WF_vars(PlaybackForwards)

SpecPlayback == Init /\ [][PlaybackNext]_vars /\ PlaybackFairness

SpecStream == StreamInit /\ [][StreamNext]_vars

SpecCodec == Init /\ [][CodecNext]_vars

\* the initial state, with the ignored send calls recorded
StoppableInit ==
    /\ WorkflowStart
    /\ activity_args = <<>>
    /\ script = NoScript
    /\ ManagerInit
    /\ SessionInit
    /\ AdapterInit
    /\ CodecInit
    /\ SideInit
    /\ send_ignored = "no"
    /\ first_audio_frame_at = "unrecorded"

SpecStoppable == StoppableInit /\ [][LifecycleNext]_vars

SpecSupervision == Init /\ [][SupervisionNext]_vars

\* the initial state, with the arrival of the first audio frame recorded
GreetingInit ==
    /\ WorkflowStart
    /\ activity_args = <<>>
    /\ script = NoScript
    /\ ManagerInit
    /\ SessionInit
    /\ AdapterInit
    /\ CodecInit
    /\ SideInit
    /\ send_ignored = "unrecorded"
    /\ first_audio_frame_at = None

SpecGreeting == GreetingInit /\ [][GreetingNext]_vars

(***************************************************************************)
(*                 Claims about VoiceCallWorkflow                          *)
(***************************************************************************)
Invocations(a) == Cardinality({i \in 1..Len(log) : log[i] = a})

Invoked(a) == Invocations(a) > 0

\* C1: when run() has returned its result or re-raised its error, the full
\* cleanup sequence has run: terminate_twilio_call was invoked if the call was
\* placed, save_transcript_batch if segments are buffered, and
\* update_call_record and cleanup_session_record in every case.
C1_CleanupBeforeExit ==
    wf.pc \in Exited =>
        /\ wf.call_sid = "CA-initiated" => Invoked("terminate_twilio_call")
        /\ wf.segs > 0 => Invoked("save_transcript_batch")
        /\ Invoked("update_call_record")
        /\ Invoked("cleanup_session_record")

\* C2: no cleanup activity is invoked more than once per call instance.
C2_CleanupAtMostOnce ==
    \A a \in CleanupActivities : Invocations(a) <= 1

IdempotentSignal(sig) ==
    \/ sig.name = "streaming_ended"
    \/ sig.name = "call_status_changed" /\ sig.arg \in TerminalTwilioStatus

\* C3: a streaming_ended, or a terminal call_status_changed value, delivered a
\* second time right after its first delivery leaves the call state (status,
\* call_ended, streaming_active, stream id, transcript segments, call sid) as
\* the first delivery left it.
C3_RepeatedSignalIsNoOp ==
    [][(lastSig'.rep = 2 /\ IdempotentSignal(lastSig'))
          => CallState(wf') = CallState(wf)]_vars

\* C3 witness: a terminal status has just been delivered for the second time
C3_Witness ==
    /\ lastSig.rep = 2
    /\ lastSig.name = "call_status_changed"
    /\ lastSig.arg = "completed"
    /\ wf.status = "COMPLETED"
    /\ wf.call_ended

\* C4: when a connection round times out with neither a positive signal nor an
\* end signal, the workflow polls the telephony provider's call-status API.
C4_TimeoutPollsProvider ==
    [][(wf.pc = "wait_connect" /\ ~ConnectCond(wf) /\ wf'.pc # "wait_connect")
          => wf'.pc = "get_twilio_call_status"]_vars
(***************************************************************************)
(*                 Claims about AudioBridgeManager                         *)
(***************************************************************************)
\* the sessions registered in the active registry for workflow (call) w
ActiveFor(w) ==
    {o \in ObjectIds : /\ \E sid \in SessionIds : sessions[sid] = o
                       /\ objs[o].workflow_id = w}

\* C5: a call identifier never has a session in the pre-warm registry while a
\* session of the same call is in the active registry.
C5_OneRegistryPerCall ==
    \A w \in WorkflowIds : prewarmed_sessions[w] # None => ActiveFor(w) = {}

\* C6: a pre-warmed session is taken at most once, by a claim, by the expiry
\* timer or by cleanup_prewarm: a claimed session is never stopped by the
\* expiry or by cleanup_prewarm, a session they stopped is never returned by a
\* claim, none is claimed twice and none is stopped by both.
C6_TakenAtMostOnce ==
    \A o \in ObjectIds : objs[o].claimed + objs[o].expired + objs[o].cleaned <= 1

\* C6 witness: a claim won against the expiry timer of its session (the timer
\* was cancelled at its sleep), another session was stopped by its expiry
C6_Witness ==
    \E o, p \in ObjectIds :
        /\ objs[o].claimed = 1 /\ objs[o].active /\ timers[o].state = "cancelled"
        /\ objs[p].expired = 1 /\ objs[p].claimed = 0

\* the step is get_or_create_session(sid, w) claiming the pre-warmed object o
ClaimStep(o, sid, w) ==
    /\ prewarmed_sessions[w] = o
    /\ objs'[o].claimed = objs[o].claimed + 1
    /\ objs'[o].session_id = sid

\* C7: a claim returns the pre-warmed session object itself, re-keyed to the
\* new session id, removes it from the pre-warm registry, registers it in the
\* active registry under the new id and cancels its expiry timer (the timer
\* created for it no longer sleeps towards stopping a session).
C7_ClaimHandsOver ==
    [][\A o \in ObjectIds, sid \in SessionIds, w \in WorkflowIds :
          ClaimStep(o, sid, w) =>
              /\ ret' = o
              /\ objs'[o].session_id = sid
              /\ objs'[o].active
              /\ prewarmed_sessions'[w] = None
              /\ sessions'[sid] = o
              /\ timers'[o].state # "sleeping"]_vars

\* C8: for one call identifier at most one pre-warmed session that is neither
\* claimed nor stopped has been created and started.
C8_NoDuplicatePrewarm ==
    \A w \in WorkflowIds :
        Cardinality({o \in ObjectIds : /\ objs[o].origin = "prewarm"
                                       /\ objs[o].workflow_id = w
                                       /\ objs[o].active
                                       /\ objs[o].claimed = 0}) <= 1

(***************************************************************************)
(*            Claims about the inbound frame path                          *)
(***************************************************************************)
\* the step is a send_audio_from_twilio call on the active session
SendCall == total_frames_sent' = total_frames_sent + 1

\* C9: a send_audio_from_twilio call on an active session whose out_queue
\* holds more than 80% of its capacity drops the frame before any conversion
\* (dropped_frames grows by exactly one, nothing is submitted to the pool,
\* out_queue does not grow), and out_queue never holds more than its
\* capacity of 100.
C9_BackpressureDropsEarly ==
    /\ [](Len(out_queue) <= maxsize)
    /\ [][(SendCall /\ active /\ 5 * Len(out_queue) > 4 * maxsize) =>
              /\ dropped_frames' = dropped_frames + 1
              /\ executor' = executor
              /\ out_queue' = out_queue]_vars

\* a frame was dropped by the early check: no conversion found the queue
\* full, since no more frames than the capacity have arrived
C9_Witness ==
    /\ active
    /\ dropped_frames > 0
    /\ total_frames_sent <= maxsize
    /\ 5 * Len(out_queue) > 4 * maxsize

\* the frames forwarded so far, in the order they were enqueued
Forwarded ==
    ai_received \o (IF sending = None THEN <<>> ELSE <<sending>>) \o out_queue

\* C10: frames are never reordered: whenever two frames have both been
\* enqueued for the AI endpoint, the one whose media event arrived first was
\* enqueued, and is sent, first.
C10_FramesNotReordered ==
    \A i, j \in 1..Len(Forwarded) :
        i < j => Forwarded[i].data < Forwarded[j].data

(***************************************************************************)
(*          Claims about VoiceCallWorkflow: failures and scenarios         *)
(***************************************************************************)
\* run() has been through the whole of _cleanup_call
FullCleanup ==
    /\ wf.call_sid # None => Invoked("terminate_twilio_call")
    /\ wf.segs > 0 => Invoked("save_transcript_batch")
    /\ Invoked("update_call_record")
    /\ Invoked("cleanup_session_record")

\* C12: when a setup activity (create_call_record, create_session_record,
\* initiate_twilio_call) fails, the status is forced to FAILED, the cleanup
\* sequence runs with that status (update_call_record is invoked while the
\* status is FAILED), and the workflow ends with the error, not a result, only
\* after the whole cleanup sequence has run.
C12_SetupFailureCleansUpThenRaises ==
    /\ [][(wf.pc \in SetupActivities /\ wf'.failed_at = wf.pc) =>
              (wf'.status = "FAILED" /\ wf'.ctx = "except")]_vars
    /\ [][(wf'.failed_at \in SetupActivities /\ wf.pc # "update_call_record"
              /\ wf'.pc = "update_call_record") => wf'.status = "FAILED"]_vars
    /\ []((wf.failed_at \in SetupActivities /\ wf.pc \in Exited) =>
              (wf.pc = "raised" /\ FullCleanup))

\* C13: when the call is connected and the maximum call duration elapses with
\* no end signal, the workflow forces call_ended to true and goes on to the
\* cleanup of the normal path, which returns a result.
C13_MaxDurationEndsCall ==
    [][(wf.pc = "wait_end" /\ ~EndCond(wf) /\ wf'.pc # "wait_end") =>
          (wf'.call_ended /\ wf'.max_duration_reached /\ wf'.ctx = "try"
           /\ wf'.status = wf.status)]_vars

\* C14: in scenario A (in-progress, streaming started, 2 transcript segments,
\* streaming ended) the result run() returns has status COMPLETED, 2
\* transcript segments and the call-sid of the placed call.
C14_ScenarioAResult ==
    (script.name = "A" /\ wf.pc = "returned") =>
        (wf.status = "COMPLETED" /\ wf.segs = 2 /\ wf.call_sid = "CA-initiated")

C16_NeverConnectedIsNoAnswer ==
    /\ [](wf.attempt < max_attempts)
    /\ [][(wf.pc = "wait_connect" /\ wf'.pc \notin {"wait_connect", "wait_end"}) =>
              /\ wf'.ctx = "try"
              /\ wf'.status = IF wf.status \in {"INITIATED", "RINGING"}
                               THEN "NO_ANSWER" ELSE wf.status]_vars

\* C11: for every AI event flagged as an interruption, once the event has
\* been processed audio_in_queue is empty and the interruption counter has
\* grown by exactly one; and no frame that was queued before the interruption
\* is handed to telephony by receive_audio_for_twilio afterwards.
C11_InterruptionClearsQueue ==
    /\ [][barge_ins' # barge_ins =>
            /\ audio_in_queue' = <<>>
            /\ interruption_count' = interruption_count + 1]_vars
    /\ [][to_twilio' # to_twilio => Head(audio_in_queue) > stale_mark]_vars

\* C17: when connecting to the AI endpoint fails or the session runner ends
\* with an error, the session is marked inactive.
C17_FailureMarksInactive == session_task = "failed" => ~active

\* C18: every frame handled on an active session is accounted for exactly
\* once: the step that finishes it either puts it on out_queue and leaves
\* dropped_frames alone, or increments dropped_frames by one and leaves
\* out_queue alone (early drop, conversion error, full queue alike).
C18_FrameEnqueuedOrCounted ==
    [][(\/ total_frames_sent' # total_frames_sent /\ executor' = executor
        \/ Len(executor') < Len(executor)) =>
            \/ /\ Len(out_queue') = Len(out_queue) + 1
               /\ dropped_frames' = dropped_frames
            \/ /\ out_queue' = out_queue
               /\ dropped_frames' = dropped_frames + 1]_vars

\* C19: the codec pool is shut down only when the session task and its
\* sender and receiver have terminated, and once it is shut down no
\* conversion is submitted to it, by the send path or by the receiver.
C19_PoolReleasedAfterTasks ==
    /\ [](pool = "shutdown" =>
            /\ ~TaskLive(session_task)
            /\ sender \notin {"get", "send_realtime_input"}
            /\ receiver.pc \notin {"receive", "gemini_to_twilio"})
    /\ [][pool = "shutdown" =>
            /\ Len(executor') <= Len(executor)
            /\ receiver'.pc = "gemini_to_twilio" => receiver.pc = "gemini_to_twilio"]_vars

\* a session that forwarded audio was stopped: its task was cancelled and
\* awaited, then the pool was shut down
C19_Witness ==
    /\ pool = "shutdown"
    /\ session_task = "done"
    /\ ai_received # <<>>
    /\ total_frames_received > 0

\* C20: a stop() call on a session that a stop() call already stopped
\* leaves active false and changes no other state of the session, and it
\* returns.
C20_StopIsIdempotent ==
    [][((\E k \in DOMAIN stops : stops[k] = "returned") /\ stops' # stops) =>
            /\ ~active'
            /\ UNCHANGED <<active, sender, session_task, pool, framevars, recvvars>>]_vars

\* a second stop() call began after the first had returned, and returned
C20_Witness ==
    /\ stops[2] = "returned"
    /\ session_task = "done"
    /\ out_queue # <<>>

\* C26: call_ended is monotonic: once it is true in a call instance it is
\* true in every later state, whatever signal is delivered and whatever step
\* run() takes.
C26_CallEndedMonotonic == [][wf.call_ended => wf'.call_ended]_vars

\* a signal that does not end a call has just been handled in a call that
\* had already ended
C26_Witness ==
    /\ lastSig.name = "streaming_started"
    /\ wf.call_ended
    /\ wf.streaming_active

\* C27: terminal states are absorbing: once the status is COMPLETED, FAILED,
\* NO_ANSWER, BUSY or CANCELED no signal and no step of run() changes it to
\* INITIATED, RINGING or IN_PROGRESS.
C27_TerminalStatusAbsorbing ==
    [][wf.status \in {"COMPLETED", "FAILED", "NO_ANSWER", "BUSY", "CANCELED"}
          => wf'.status \notin {"INITIATED", "RINGING", "IN_PROGRESS"}]_vars

\* C30: call_status_changed maps initiated, ringing, in-progress, answered,
\* completed, busy, no-answer, failed and canceled to their call status, leaves
\* the status alone for an unknown string, and sets call_ended exactly for the
\* five terminal strings.
C30_StatusMapping ==
    [][lastSig'.name = "call_status_changed" =>
          LET s == lastSig'.arg
          IN  /\ wf'.status =
                    CASE s = "initiated"   -> "INITIATED"
                      [] s = "ringing"     -> "RINGING"
                      [] s = "in-progress" -> "IN_PROGRESS"
                      [] s = "answered"    -> "IN_PROGRESS"
                      [] s = "completed"   -> "COMPLETED"
                      [] s = "busy"        -> "BUSY"
                      [] s = "no-answer"   -> "NO_ANSWER"
                      [] s = "failed"      -> "FAILED"
                      [] s = "canceled"    -> "CANCELED"
                      [] OTHER             -> wf.status
              /\ wf'.call_ended =
                    (wf.call_ended
                       \/ s \in {"completed", "busy", "no-answer", "failed", "canceled"})]_vars

\* "answered" has just been delivered to a call that was ringing
C30_Witness ==
    /\ lastSig.name = "call_status_changed"
    /\ lastSig.arg = "answered"
    /\ wf.status = "IN_PROGRESS"
    /\ ~wf.call_ended

\* C28: cleanup_prewarm(w) returns true exactly when a pre-warm entry for w
\* existed; afterwards no entry for w is in the pre-warm registry, the
\* session of the entry has been stopped and the expiry timer created for it
\* is no longer pending; when no entry existed it returns false and stops no
\* session.
C28_CleanupPrewarmEvicts ==
    [][\A w \in WorkflowIds :
          CleanupPrewarmEffect(w) =>
              LET o == prewarmed_sessions[w]
              IN  /\ cleaned' = [w |-> w, result |-> o # None]
                  /\ prewarmed_sessions'[w] = None
                  /\ o # None => (~objs'[o].active /\ timers'[o].state # "sleeping")
                  /\ o = None => \A x \in ObjectIds : objs'[x].active = objs[x].active]_vars

\* C29: when close_all_sessions returns, the active registry, the pre-warm
\* registry and the registry of expiry tasks are empty and every session
\* that was in a registry when it was called has been stopped; and
\* close_session(id) stops and removes exactly the session registered under
\* id.
C29_CloseAllEmptiesRegistries ==
    /\ [][(closing.pc # "done" /\ closing'.pc = "done") =>
            /\ Keys(sessions') = {}
            /\ Keys(prewarmed_sessions') = {}
            /\ Keys(prewarm_cleanup_tasks') = {}
            /\ \A o \in closing'.seen : ~objs'[o].active]_vars
    /\ [][\A sid \in SessionIds :
            close_session(sid) =>
                /\ sessions' = [sessions EXCEPT ![sid] = None]
                /\ \A o \in ObjectIds :
                      objs'[o].active = (objs[o].active /\ o # sessions[sid])]_vars

\* C24: a pre-warmed entry that is never claimed and never cleaned up
\* explicitly is eventually stopped and removed from the pre-warm registry.
C24_UnclaimedEntryExpires ==
    \A o \in ObjectIds :
        (\E w \in WorkflowIds : prewarmed_sessions[w] = o)
            ~> \/ objs[o].claimed > 0
               \/ objs[o].cleaned > 0
               \/ /\ ~objs[o].active
                  /\ \A w \in WorkflowIds : prewarmed_sessions[w] # o

\* C23: while a session has its pre-warm id (it is pre-warmed and not yet
\* claimed) its receiver does not start to receive a second turn; a turn
\* after the first starts only when get_or_create_session has re-keyed the
\* session.
C23_PrewarmStaysInFirstTurn ==
    /\ [](session_id = "prewarm-w1" => turn_count <= 1)
    /\ [][(turn_count' # turn_count /\ turn_count' > 1) => session_id = "s1"]_vars

\* the receiver waited behind the gate, the session was claimed and the
\* second turn is being received
C23_Witness ==
    /\ turn_count = 2
    /\ session_id = "s1"
    /\ receiver.pc = "receive"
    /\ total_frames_received > 0

\* C22: get_transcript_buffer returns all buffered segments and leaves the
\* buffer empty, atomically with respect to the receiver that appends: every
\* segment appended is returned by at most one call, and it is either still
\* buffered, or returned, or was discarded by the full deque of capacity 50.
C22_DrainReturnsEachSegmentOnce ==
    /\ [][returned' # returned =>
            /\ returned' = returned \o transcript_buffer
            /\ transcript_buffer' = <<>>]_vars
    /\ [](\A id \in 1..appended :
            /\ Cardinality({i \in DOMAIN returned : returned[i] = id}) <= 1
            /\ Cardinality({i \in DOMAIN transcript_buffer : transcript_buffer[i] = id})
               + Cardinality({i \in DOMAIN returned : returned[i] = id})
               + (IF id \in evicted THEN 1 ELSE 0) = 1)

\* the deque overflowed before the first drain, the drain returned the 50
\* segments left, and a segment was appended after it
C22_Witness ==
    /\ evicted = {1}
    /\ Len(returned) = maxlen
    /\ Len(transcript_buffer) = 1

\* C21: send_audio_from_twilio never waits for queue space: while out_queue
\* is full and is not being drained, every further call returns at once with
\* the session still active and dropped_frames incremented, and a send task
\* whose conversion ends finishes without enqueuing.
C21_SendNeverWaitsForSpace ==
    /\ [][(Len(out_queue) = maxsize /\ active /\ total_frames_sent' # total_frames_sent) =>
            /\ executor' = executor
            /\ dropped_frames' = dropped_frames + 1
            /\ active']_vars
    /\ [][(Len(out_queue) = maxsize /\ Len(executor') < Len(executor)) =>
            /\ out_queue' = out_queue
            /\ active' = active]_vars

\* the sender never started, the queue filled to its capacity and the frames
\* sent after that were dropped
C21_Witness ==
    /\ sender = "not_started"
    /\ Len(out_queue) = maxsize
    /\ executor = <<>>
    /\ total_frames_sent = MaxFrames
    /\ dropped_frames = MaxFrames - maxsize
    /\ active

C31_MetricsSignalledEachCycle ==
    [][(metrics_cycles' # metrics_cycles /\ wf.pc \notin Exited)
          => metrics_signals' = metrics_signals + 1]_vars

\* a payload that is base64: characters of the alphabet in groups of four,
\* the last group ending in at most two padding characters
WellFormedPayload(s) ==
    /\ Len(s) % 4 = 0
    /\ \E p \in 0..2 :
          /\ p <= Len(s)
          /\ \A i \in 1..Len(s) : s[i] = IF i > Len(s) - p THEN "=" ELSE "A"

\* PCM16 audio: a whole number of two-byte samples
WellFormedPcm(s) == Len(s) % 2 = 0

\* C32: a codec helper never raises, and it returns an empty output for an
\* empty input and for a malformed one.
C32_CodecNeverRaises ==
    /\ codec.outcome.raised = "no"
    /\ codec.input = <<>> => codec.outcome.len = 0
    /\ (codec.fn = "twilio_to_gemini" /\ ~WellFormedPayload(codec.input))
          => codec.outcome.len = 0
    /\ (codec.fn = "gemini_to_twilio" /\ ~WellFormedPcm(codec.input))
          => codec.outcome.len = 0

\* C33: on a stopped session a send call changes nothing: the frames-sent
\* counter stays, no conversion is submitted, and the drop counter and the
\* outbound queue change only when a conversion submitted before the stop
\* completes.
C33_SendAfterStopIgnored ==
    [][~active =>
          /\ total_frames_sent' = total_frames_sent
          /\ Len(executor') <= Len(executor)
          /\ Len(executor') = Len(executor) =>
                (dropped_frames' = dropped_frames /\ out_queue' = out_queue)]_vars

\* a send call was made on a stopped session whose stream had frames to come
C33_Witness ==
    /\ send_ignored = "yes"
    /\ ~active
    /\ stops[1] = "returned"
    /\ total_frames_sent = 1
    /\ dropped_frames = 0
    /\ executor = <<>>

\* C34: once the receiver or the sender has failed with an error of the AI
\* endpoint, its sibling does not go on: it takes no further step of its
\* loop other than its own end.
C34_SiblingsTornDownTogether ==
    /\ [][receiver.pc = "failed" =>
             (sender' = sender \/ sender' \in {"cancelled", "done", "failed"})]_vars
    /\ [][sender = "failed" =>
             (receiver' = receiver \/ receiver'.pc \in {"cancelled", "done", "failed"})]_vars

\* the activity invocations named a among the recorded ones
ArgsOf(a) == {activity_args[i] : i \in {j \in 1..Len(activity_args) :
                                           activity_args[j].activity = a}}

\* C35: when run() has exited, the segments the workflow received through
\* transcripts_available, the final batch of the handler included, were all
\* in the batch of a save_transcript_batch invocation.
C35_SignalledSegmentsSaved ==
    (wf.pc \in Exited /\ wf.segs > 0) =>
        \E c \in ArgsOf("save_transcript_batch") : c.segs = wf.segs

\* C38: the status of the result run() returns is the status that cleanup
\* wrote to the call record with update_call_record.
C38_ResultStatusIsRecordedStatus ==
    wf.pc = "returned" =>
        \E c \in ArgsOf("update_call_record") : c.status = wf.status

\* a step of run() in which the activity it awaited completed: run() is in
\* the same context afterwards and has not left with the error
Completed(a) == wf.pc = a /\ wf'.pc # a /\ wf'.ctx = wf.ctx /\ wf'.pc # "raised"

\* a step of run() that enters _cleanup_call: from the code before it, or
\* from `except Exception` after a failure in the try body
EntersCleanup ==
    /\ wf'.pc \in CleanupActivities
    /\ wf.pc \notin CleanupActivities \/ wf'.ctx # wf.ctx

\* the last recorded invocation
LastArgs == activity_args[Len(activity_args)]

InRegistry(o) ==
    \/ \E sid \in SessionIds : sessions[sid] = o
    \/ \E w \in WorkflowIds : prewarmed_sessions[w] = o

\* C36: no started session is lost by the manager: whenever a step of
\* create_session, prewarm_session, get_or_create_session, cleanup_prewarm,
\* the expiry task or close_session takes a session object out of the
\* registries (removing its entry or overwriting it), that step has stopped
\* the session; a session that is merely moved stays registered
C36_NoStartedSessionLost ==
    [][\A o \in ObjectIds :
            (InRegistry(o) /\ ~InRegistry(o)') => ~objs'[o].active]_vars

\* C37: when start_workflow fails in initiate_call, the pre-warmed session of
\* that call is stopped and removed: once initiate_call has returned its
\* error, no pre-warm entry exists for the workflow id, whenever the pre-warm
\* task runs relative to the failure handling
C37_FailedStartLeavesNoPrewarm ==
    \A w \in WorkflowIds : api[w] = "error" => prewarmed_sessions[w] = None

\* C39: the greeting watchdog sends the greeting again only while the session
\* is active and no audio frame of the AI endpoint has been received, once
\* after its 3-second wait and once after its 8-second wait, so at most twice
\* per session; after a first frame has been received or the session has been
\* stopped it never sends the greeting
C39_WatchdogResendsOnlyWhileSilent ==
    /\ [][forced_prompts' # forced_prompts =>
            /\ active
            /\ first_audio_frame_at = None
            /\ watchdog \in {"sleep_3", "sleep_8"}
            /\ forced_prompts' = IF watchdog = "sleep_3" THEN 1 ELSE 2]_vars
    /\ [](forced_prompts <= 2)

C39_Witness ==
    /\ forced_prompts = 2
    /\ watchdog = "returned"
    /\ first_audio_frame_at = "set"
    /\ ~active

====
